---- MODULE Spec2Model ----
(***************************************************************************)
(* restore_from_backup.py: restore CRM or Sales data from a backup zip.    *)
(*                                                                         *)
(* The filesystem is a function from the paths that exist to their nodes   *)
(* (a directory, or a regular file with its bytes).  A path is a root      *)
(* label and a sequence of file names; a file name is the sequence of its  *)
(* dot-separated segments (<<"ps_crm", ".db">> is ps_crm.db), so that      *)
(* pathlib's suffix and with_suffix are computed, not looked up.           *)
(***************************************************************************)
EXTENDS Naturals, Integers, Sequences, FiniteSets, TLC

VARIABLES
    args,          \* the command line (argparse namespace)
    zip,           \* the file at --backup: kind (missing, corrupt, zip) and entries
    fs0,           \* history: the filesystem when main started
    app,           \* main's local app
    data_dir,      \* main's local data_dir
    db_path,       \* main's local db_path
    tmpdir,        \* the TemporaryDirectory of line 127, NoPath while not open
    db_candidates, \* main's local db_candidates (sorted)
    backup_path,   \* main's local backup_path
    pending,       \* _copy_tree: paths of source.rglob("*") not yet visited
    copied,        \* _copy_tree: the list copied
    stdout,        \* what main printed to stdout
    stderr,        \* what main printed to stderr
    fs,            \* the filesystem
    pc,            \* position of main
    result         \* how main ended: running, return 0, return 2, or raised

vars == <<args, zip, fs0, app, data_dir, db_path, tmpdir, db_candidates,
          backup_path, pending, copied, stdout, stderr, fs, pc, result>>

(* ------------------------------ bounds -------------------------------- *)

\* largest number of entries of the archive under restore
MaxEntries == 3

\* number of distinct values of the wall clock second (time.strftime)
MaxClock == 2

(* --------------------------- names and paths -------------------------- *)

None == "None"

\* a file name from its stem and its list of suffixes
Name(stem, suffixes) == <<stem>> \o suffixes

\* Path.suffix of a file name: the last dot segment, "" when there is none
Suffix(name) == IF Len(name) > 1 THEN name[Len(name)] ELSE ""

\* the directory a path starts from, and the path that is no path
Root(label) == <<Name(label, <<>>)>>

NoPath == <<>>

\* path / name
Join(p, name) == Append(p, name)

\* path / rel, rel a relative path of several names
JoinRel(p, rel) == p \o rel

\* Path.name
LastName(p) == p[Len(p)]

\* Path.parent; the parent of a root is the root itself
Parent(p) == IF Len(p) <= 1 THEN p ELSE SubSeq(p, 1, Len(p) - 1)

\* every proper ancestor of p, its root included
Ancestors(p) == {SubSeq(p, 1, k) : k \in 1..(Len(p) - 1)}

\* p lies strictly below directory d
Under(p, d) == Len(p) > Len(d) /\ SubSeq(p, 1, Len(d)) = d

\* path.relative_to(d), for a path under d
RelativeTo(p, d) == SubSeq(p, Len(d) + 1, Len(p))

\* Path.with_suffix(suffix): the last suffix of the last name replaced by the
\* segments of the new suffix
WithSuffix(p, segments) ==
    LET name == LastName(p)
        stem == IF Len(name) > 1 THEN SubSeq(name, 1, Len(name) - 1) ELSE name
    IN Join(Parent(p), stem \o segments)

\* the name as text
RECURSIVE NameText(_)
NameText(name) == IF name = <<>> THEN "" ELSE name[1] \o NameText(Tail(name))

\* the path as text
RECURSIVE PathText(_)
PathText(p) ==
    IF p = <<>> THEN ""
    ELSE IF Len(p) = 1 THEN NameText(p[1])
    ELSE NameText(p[1]) \o "/" \o PathText(Tail(p))

(* ------------------------------ filesystem ---------------------------- *)

\* the node of a directory; the node of a regular file is its bytes
DirNode == "<dir>"

\* the bytes a copy leaves behind when it fails part-way
Truncated == "<truncated>"

\* bytes of the member of the archive stored under the given entry name
ZipBytes(ename) == "zip:" \o PathText(ename)

\* bytes of the file that was at path p before the run
OldBytes(p) == "old:" \o PathText(p)

Exists(f, p) == p \in DOMAIN f

IsFile(f, p) == Exists(f, p) /\ f[p] # DirNode

IsDir(f, p) == Exists(f, p) /\ f[p] = DirNode

\* f with path p set to node n
Put(f, p, n) == [q \in DOMAIN f \cup {p} |-> IF q = p THEN n ELSE f[q]]

\* Path.mkdir(parents=True, exist_ok=True) can succeed: no file is in the way
CanMkdirs(f, d) == \A q \in Ancestors(d) \cup {d} : ~IsFile(f, q)

\* Path.mkdir(parents=True, exist_ok=True)
Mkdirs(f, d) ==
    LET new == (Ancestors(d) \cup {d}) \ DOMAIN f
    IN [q \in DOMAIN f \cup new |-> IF q \in new THEN DirNode ELSE f[q]]

\* shutil.copy2(src, dst) can succeed
CanCopy(f, src, dst) == IsFile(f, src) /\ IsDir(f, Parent(dst)) /\ ~IsDir(f, dst)

\* shutil.copy2(src, dst): dst holds the bytes of src
Copy2(f, src, dst) == Put(f, dst, f[src])

\* shutil.copy2 interrupted by an I/O error: dst was opened for writing
Copy2Torn(f, src, dst) == Put(f, dst, Truncated)

\* shutil.rmtree of directory d and everything under it
RemoveTree(f, d) ==
    [q \in {q \in DOMAIN f : q # d /\ ~Under(q, d)} |-> f[q]]

\* the part of the filesystem outside directory d
Outside(f, d) == [q \in {q \in DOMAIN f : q # d /\ ~Under(q, d)} |-> f[q]]

(* ------------------------------- archive ------------------------------ *)

\* a member of the archive: its path inside the archive and whether it is a
\* directory entry (its zip name then ends with "/")
Entry(ename, isdir) == [name |-> ename, isdir |-> isdir]

CRM_EXPORT_MARKER == <<Name("exports", <<>>), Name("ps_crm", <<".sql">>)>>

SALES_EXPORT_MARKER == <<Name("exports", <<>>), Name("ps_sales", <<".sql">>)>>

storage_prefix == Name("storage", <<>>)

db_prefix == Name("database", <<>>)

\* the wall clock seconds a run can fall into
Clock == 1..MaxClock

\* the segment strftime contributes to the backup suffix
BakSegment(ts) == ".bak_" \o ToString(ts)

\* the members an archive under restore is made of
EntryUniverse ==
    { Entry(CRM_EXPORT_MARKER, FALSE),
      Entry(SALES_EXPORT_MARKER, FALSE),
      Entry(<<db_prefix, Name("a", <<".db">>)>>, FALSE),
      Entry(<<db_prefix, Name("b", <<".db">>)>>, FALSE),
      Entry(<<db_prefix, Name("sub", <<>>), Name("c", <<".db">>)>>, FALSE),
      Entry(<<storage_prefix>>, TRUE),
      Entry(<<storage_prefix>>, FALSE),
      Entry(<<storage_prefix, Name("a", <<>>), Name("g", <<".txt">>)>>, FALSE),
      Entry(<<storage_prefix, Name("ps_crm", <<".db">>)>>, FALSE),
      Entry(<<storage_prefix, Name("ps_crm", <<".db", BakSegment(1)>>)>>, FALSE) }

Archives == {es \in SUBSET EntryUniverse : Cardinality(es) <= MaxEntries}

\* what --backup can point at
BackupFiles ==
    {[kind |-> "missing", entries |-> {}], [kind |-> "corrupt", entries |-> {}]}
    \cup {[kind |-> "zip", entries |-> es] : es \in Archives}

\* name in archive.namelist(), for the name of a regular member
InNamelist(entries, ename) == Entry(ename, FALSE) \in entries

\* name.startswith(prefix + "/") for the zip name of entry e
StartsWithDir(e, prefix) == e.name[1] = prefix /\ (Len(e.name) > 1 \/ e.isdir)

\* ZipFile.extractall cannot lay the members out: a regular member sits where
\* another member needs a directory
ExtractClash(entries) ==
    \E e1, e2 \in entries :
        /\ ~e1.isdir
        /\ e1 # e2
        /\ Len(e2.name) >= Len(e1.name)
        /\ SubSeq(e2.name, 1, Len(e1.name)) = e1.name

\* ZipFile.extractall(tmpdir) on the filesystem f
ExtractAll(f, entries, tmp) ==
    LET files == {e \in entries : ~e.isdir}
        dirs  == UNION {Ancestors(JoinRel(tmp, e.name)) : e \in entries}
                 \cup {JoinRel(tmp, e.name) : e \in entries \ files}
        made  == dirs \cup {JoinRel(tmp, e.name) : e \in files}
    IN [q \in DOMAIN f \cup made |->
            IF q \in dirs THEN DirNode
            ELSE IF q \in made THEN ZipBytes(RelativeTo(q, tmp))
            ELSE f[q]]

(* ------------------------------ the helpers --------------------------- *)

\* _detect_app with the two tests in the other order
DetectSalesFirst(entries) ==
    IF InNamelist(entries, SALES_EXPORT_MARKER) THEN "sales"
    ELSE IF InNamelist(entries, CRM_EXPORT_MARKER) THEN "crm"
    ELSE None

\* _detect_app falling back to an app instead of None
DetectWithDefault(entries) ==
    IF InNamelist(entries, CRM_EXPORT_MARKER) THEN "crm" ELSE "sales"

\* _detect_app
_detect_app(entries) ==
    IF InNamelist(entries, CRM_EXPORT_MARKER) THEN "crm"
    ELSE IF InNamelist(entries, SALES_EXPORT_MARKER) THEN "sales"
    ELSE None

\* app = args.app or _detect_app(archive)
ResolvedApp(explicit, entries) ==
    IF explicit # None THEN explicit ELSE _detect_app(entries)

\* the directories the run can resolve to
OverrideDir == Root("override")
EnvStorageDir == Root("env_storage")
DefaultStorageDir == Root("default_storage")
ConfigDataDir == Root("config_data")
ExternalDir == Root("external")

DataRoots == {OverrideDir, EnvStorageDir, DefaultStorageDir, ConfigDataDir}

\* the values the environment variables can have ("" is a variable set to
\* nothing, None one that is not set)
Environments ==
    [ APP_STORAGE_DIR : {None, "env_storage"},
      DB_PATH         : {None, "crmdata"},
      PS_SALES_DB_URL : {None, "", "sqlite:///sales.db", "sales.db"} ]

\* Path(text) for the texts the environment supplies
PathOfText(text) ==
    CASE text = "env_storage" -> EnvStorageDir
      [] text = "crmdata"     -> Join(ExternalDir, Name("crmdata", <<>>))
      [] text = "sales.db"    -> Join(ExternalDir, Name("sales", <<".db">>))
      [] OTHER                -> NoPath

\* db_url.startswith("sqlite:///")
HasSqlitePrefix(url) == url = "sqlite:///sales.db"

\* db_url[len("sqlite:///"):]
StripSqlitePrefix(url) == IF url = "sqlite:///sales.db" THEN "sales.db" ELSE url

\* os.getenv(name, default)
Getenv(env, name, default) == IF env[name] = None THEN default ELSE env[name]

\* _crm_paths
_crm_paths(data_dir_override, env) ==
    LET base_dir ==
            IF data_dir_override # None THEN OverrideDir
            ELSE IF env.APP_STORAGE_DIR # None THEN PathOfText(env.APP_STORAGE_DIR)
            ELSE DefaultStorageDir
        db == IF env.DB_PATH # None THEN PathOfText(env.DB_PATH)
              ELSE Join(base_dir, Name("ps_crm", <<".db">>))
    IN <<base_dir, db>>

\* _sales_paths
_sales_paths(data_dir_override, env) ==
    LET dir == IF data_dir_override # None THEN OverrideDir ELSE ConfigDataDir
        db_url == Getenv(env, "PS_SALES_DB_URL", "")
        db == IF db_url # ""
              THEN IF HasSqlitePrefix(db_url)
                   THEN PathOfText(StripSqlitePrefix(db_url))
                   ELSE PathOfText(db_url)
              ELSE Join(dir, Name("ps_sales", <<".db">>))
    IN <<dir, db>>

\* the order of str: the strings of the model, sorted
StringOrder == <<"a", "b", "c", "g", "ps_crm", "ps_sales", "sub">>

StringRank(str) == CHOOSE i \in 1..Len(StringOrder) : StringOrder[i] = str

\* path1 < path2 for two files of one directory whose names differ in the stem
PathLess(p1, p2) ==
    StringRank(LastName(p1)[1]) < StringRank(LastName(p2)[1])

\* sorted(paths)
RECURSIVE Sorted(_)
Sorted(paths) ==
    IF paths = {} THEN <<>>
    ELSE LET least == CHOOSE p \in paths : \A q \in paths \ {p} : PathLess(p, q)
         IN <<least>> \o Sorted(paths \ {least})

\* db_dir.rglob("*.db") in place of glob: any depth below db_dir
GlobDbRecursive(f, db_dir) ==
    {p \in DOMAIN f : Under(p, db_dir) /\ Suffix(LastName(p)) = ".db"}

\* db_dir.glob("*.db"): the children of db_dir whose name ends in .db
GlobDb(f, db_dir) ==
    {p \in DOMAIN f : Parent(p) = db_dir /\ p # db_dir /\ Suffix(LastName(p)) = ".db"}

\* source.rglob("*"): everything below source
Rglob(f, source) == {p \in DOMAIN f : Under(p, source)}

\* destination / path.name in place of destination / rel
CopyTargetFlat(path, source, destination) == Join(destination, LastName(path))

\* the target _copy_tree gives the file path of the tree rooted at source
CopyTarget(path, source, destination) == JoinRel(destination, RelativeTo(path, source))

\* the backup path _backup_existing_db builds at clock second ts
BackupPathAt(db, ts) ==
    LET suffix == Suffix(LastName(db))
    IN WithSuffix(db, (IF suffix = "" THEN <<>> ELSE <<suffix>>) \o <<BakSegment(ts)>>)

\* no cleanup when an exception leaves the block
UnwindLeak(f, tmp) == f

\* the filesystem once an exception has left the with block of the
\* TemporaryDirectory: its __exit__ removes the directory
Unwind(f, tmp) == RemoveTree(f, tmp)

(* ---------------------------- initial states -------------------------- *)

\* the command lines: --app is absent, one of the two choices, or a value
\* argparse rejects; --data-dir is absent or given; --dry-run is off or on
CommandLines ==
    [ app      : {None, "crm", "sales", "bogus"},
      data_dir : {None, "override"},
      dry_run  : BOOLEAN ]

EmptyFS == [q \in {} |-> DirNode]

\* files that are on disk, under directory d, before the run: both database
\* files and a file the archive does not have
SeedFiles(d) ==
    { Join(d, Name("ps_crm", <<".db">>)),
      Join(d, Name("ps_sales", <<".db">>)),
      Join(d, Name("keep", <<".txt">>)) }

SeedExternal ==
    { Join(ExternalDir, Name("crmdata", <<>>)),
      Join(ExternalDir, Name("sales", <<".db">>)) }

\* a filesystem holding the given files, each with bytes of its own
FSWith(files) ==
    LET dirs == UNION {Ancestors(p) : p \in files}
    IN [q \in dirs \cup files |->
            IF q \in dirs THEN DirNode ELSE OldBytes(q)]

\* the filesystems a run starts from: nothing there; the directories there
\* without a database; everything there
InitialFilesystems ==
    { EmptyFS,
      FSWith({Join(d, Name("keep", <<".txt">>)) : d \in DataRoots}),
      FSWith(UNION {SeedFiles(d) : d \in DataRoots} \cup SeedExternal) }

Init ==
    /\ pc = "parse_args"
    /\ args \in CommandLines
    /\ zip \in BackupFiles
    /\ fs \in InitialFilesystems
    /\ fs0 = fs
    /\ app = None
    /\ data_dir = NoPath
    /\ db_path = NoPath
    /\ tmpdir = NoPath
    /\ db_candidates = <<>>
    /\ backup_path = NoPath
    /\ pending = {}
    /\ copied = <<>>
    /\ stdout = <<>>
    /\ stderr = <<>>
    /\ result = "running"

(* -------------------------------- output ------------------------------ *)

Line(text, n, path, names) == [text |-> text, n |-> n, path |-> path, names |-> names]

\* main is over with the given outcome
Finish(outcome) == pc' = "done" /\ result' = outcome

TempDir == Root("tmp")

(* ------------------------------- main --------------------------------- *)

\* line 98: parser.parse_args(); argparse ends the process with SystemExit(2)
\* on a value of --app that is not a choice
ParseArgs ==
    /\ pc = "parse_args"
    /\ IF args.app \in {None, "crm", "sales"}
       THEN pc' = "check_archive" /\ result' = result
       ELSE Finish("raised SystemExit(2)")
    /\ UNCHANGED <<args, zip, fs, fs0, app, data_dir, db_path, tmpdir, db_candidates,
                   backup_path, pending, copied, stdout, stderr>>

\* lines 99-102: the archive does not exist
ArchiveNotFound ==
    /\ pc = "check_archive"
    /\ zip.kind = "missing"
    /\ stderr' = Append(stderr, Line("Backup archive not found", 0, NoPath, {}))
    /\ Finish("return 2")
    /\ UNCHANGED <<args, zip, fs, fs0, app, data_dir, db_path, tmpdir, db_candidates,
                   backup_path, pending, copied, stdout>>

\* line 104: zipfile.ZipFile(archive_path) raises on a file that is no zip
OpenArchiveError ==
    /\ pc = "check_archive"
    /\ zip.kind = "corrupt"
    /\ Finish("raised BadZipFile")
    /\ UNCHANGED <<args, zip, fs, fs0, app, data_dir, db_path, tmpdir, db_candidates,
                   backup_path, pending, copied, stdout, stderr>>

\* the flag is not looked at
DryRunIgnored(a) == FALSE

\* line 117: if args.dry_run
DryRunRequested(a) == a.dry_run

\* lines 104-105, 113: the archive opens, the app is known, the paths resolved
\* from the override and the environment read at this point
ResolveApp ==
    /\ pc = "check_archive"
    /\ zip.kind = "zip"
    /\ ResolvedApp(args.app, zip.entries) # None
    /\ app' = ResolvedApp(args.app, zip.entries)
    /\ \E env \in Environments :
          LET paths == IF app' = "crm" THEN _crm_paths(args.data_dir, env)
                       ELSE _sales_paths(args.data_dir, env)
          IN data_dir' = paths[1] /\ db_path' = paths[2]
    /\ pc' = IF DryRunRequested(args) THEN "dry_run" ELSE "extract"
    /\ UNCHANGED <<args, zip, fs, fs0, tmpdir, db_candidates, backup_path, pending,
                   copied, stdout, stderr, result>>

\* lines 104-111: the archive opens, no app is given and none is detected
AppUnknown ==
    /\ pc = "check_archive"
    /\ zip.kind = "zip"
    /\ ResolvedApp(args.app, zip.entries) = None
    /\ stderr' = Append(stderr, Line("Unable to detect app type from backup", 0, NoPath, {}))
    /\ Finish("return 2")
    /\ UNCHANGED <<args, zip, fs, fs0, app, data_dir, db_path, tmpdir, db_candidates,
                   backup_path, pending, copied, stdout>>

\* len(storage_files) of line 118
DryRunStorageCount(entries) ==
    Cardinality({e \in entries : StartsWithDir(e, storage_prefix)})

\* db_files of line 119
DryRunDbFiles(entries) == {e \in entries : StartsWithDir(e, db_prefix)}

\* lines 117-125: the dry run report
DryRun ==
    /\ pc = "dry_run"
    /\ stdout' = stdout \o
          << Line("App: " \o app, 0, NoPath, {}),
             Line("Data dir", 0, data_dir, {}),
             Line("Database path", 0, db_path, {}),
             Line("Storage files to restore", DryRunStorageCount(zip.entries), NoPath, {}),
             Line("Database files in archive", 0, NoPath, DryRunDbFiles(zip.entries)) >>
    /\ Finish("return 0")
    /\ UNCHANGED <<args, zip, fs, fs0, app, data_dir, db_path, tmpdir, db_candidates,
                   backup_path, pending, copied, stderr>>

\* lines 127-131: the temporary directory is made and the archive extracted
Extract ==
    /\ pc = "extract"
    /\ ~ExtractClash(zip.entries)
    /\ tmpdir' = TempDir
    /\ fs' = ExtractAll(Put(fs, TempDir, DirNode), zip.entries, TempDir)
    /\ pc' = "find_db"
    /\ UNCHANGED <<args, zip, fs0, app, data_dir, db_path, db_candidates, backup_path,
                   pending, copied, stdout, stderr, result>>

\* lines 127-128: extractall raises (two members clash, or an I/O error) after
\* any part of the archive was written below the temporary directory
ExtractError ==
    /\ pc = "extract"
    /\ \E done \in SUBSET zip.entries :
          /\ ~ExtractClash(done)
          /\ tmpdir' = TempDir
          /\ fs' = Unwind(ExtractAll(Put(fs, TempDir, DirNode), done, TempDir), TempDir)
    /\ Finish("raised OSError")
    /\ UNCHANGED <<args, zip, fs0, app, data_dir, db_path, db_candidates, backup_path,
                   pending, copied, stdout, stderr>>

\* lines 133-136: the candidates, sorted
DbCandidates(f, db_dir) == IF Exists(f, db_dir) THEN Sorted(GlobDb(f, db_dir)) ELSE <<>>

\* lines 133-138: the database files of the extracted tree are listed
FindDb ==
    /\ pc = "find_db"
    /\ db_candidates' = DbCandidates(fs, Join(tmpdir, db_prefix))
    /\ pc' = IF db_candidates' # <<>> THEN "backup_db" ELSE "skip_db"
    /\ UNCHANGED <<args, zip, fs, fs0, app, data_dir, db_path, tmpdir, backup_path,
                   pending, copied, stdout, stderr, result>>

\* lines 68-70: _backup_existing_db has nothing to back up
NeedsBackup(f, db) == Exists(f, db)

\* lines 139-141, 68-75: _backup_existing_db(db_path), and the report of it
BackupExistingDb ==
    /\ pc = "backup_db"
    /\ IF ~NeedsBackup(fs, db_path)
       THEN /\ backup_path' = NoPath
            /\ UNCHANGED <<fs, stdout>>
       ELSE \E ts \in Clock :
               /\ CanMkdirs(fs, Parent(BackupPathAt(db_path, ts)))
               /\ CanCopy(Mkdirs(fs, Parent(BackupPathAt(db_path, ts))),
                          db_path, BackupPathAt(db_path, ts))
               /\ backup_path' = BackupPathAt(db_path, ts)
               /\ fs' = Copy2(Mkdirs(fs, Parent(backup_path')), db_path, backup_path')
               /\ stdout' = Append(stdout,
                                Line("Backed up existing database to", 0, backup_path', {}))
    /\ pc' = "restore_db"
    /\ UNCHANGED <<args, zip, fs0, app, data_dir, db_path, tmpdir, db_candidates,
                   pending, copied, stderr, result>>

\* line 74: the copy to the backup path raises; the backup file may have been
\* opened for writing
BackupError ==
    /\ pc = "backup_db"
    /\ NeedsBackup(fs, db_path)
    /\ \E ts \in Clock, torn \in BOOLEAN :
          fs' = Unwind(IF torn /\ CanCopy(fs, db_path, BackupPathAt(db_path, ts))
                       THEN Copy2Torn(fs, db_path, BackupPathAt(db_path, ts))
                       ELSE fs, tmpdir)
    /\ Finish("raised OSError")
    /\ UNCHANGED <<args, zip, fs0, app, data_dir, db_path, tmpdir, db_candidates,
                   backup_path, pending, copied, stdout, stderr>>

\* lines 142-144: the destination database is overwritten with the first
\* candidate
RestoreDb ==
    /\ pc = "restore_db"
    /\ CanMkdirs(fs, Parent(db_path))
    /\ CanCopy(Mkdirs(fs, Parent(db_path)), db_candidates[1], db_path)
    /\ fs' = Copy2(Mkdirs(fs, Parent(db_path)), db_candidates[1], db_path)
    /\ stdout' = Append(stdout, Line("Restored database to", 0, db_path, {}))
    /\ pc' = "storage"
    /\ UNCHANGED <<args, zip, fs0, app, data_dir, db_path, tmpdir, db_candidates,
                   backup_path, pending, copied, stderr, result>>

\* line 143: the copy over the destination database raises; the destination
\* may have been opened for writing
RestoreDbError ==
    /\ pc = "restore_db"
    /\ \E torn \in BOOLEAN :
          fs' = Unwind(IF torn /\ CanMkdirs(fs, Parent(db_path))
                             /\ CanCopy(Mkdirs(fs, Parent(db_path)), db_candidates[1], db_path)
                       THEN Copy2Torn(Mkdirs(fs, Parent(db_path)), db_candidates[1], db_path)
                       ELSE fs, tmpdir)
    /\ Finish("raised OSError")
    /\ UNCHANGED <<args, zip, fs0, app, data_dir, db_path, tmpdir, db_candidates,
                   backup_path, pending, copied, stdout, stderr>>

\* lines 145-146: no candidate
SkipDb ==
    /\ pc = "skip_db"
    /\ stdout' = Append(stdout, Line("No database file found in archive; skipping DB restore.",
                                     0, NoPath, {}))
    /\ pc' = "storage"
    /\ UNCHANGED <<args, zip, fs, fs0, app, data_dir, db_path, tmpdir, db_candidates,
                   backup_path, pending, copied, stderr, result>>

\* line 148: if storage_dir.exists()
HasStorage(f, storage_dir) == Exists(f, storage_dir)

\* lines 148-150, 56-57: the data directory is made and _copy_tree starts
StartCopyTree ==
    /\ pc = "storage"
    /\ HasStorage(fs, Join(tmpdir, storage_prefix))
    /\ CanMkdirs(fs, data_dir)
    /\ fs' = Mkdirs(fs, data_dir)
    /\ pending' = Rglob(fs, Join(tmpdir, storage_prefix))
    /\ copied' = <<>>
    /\ pc' = "copy_tree"
    /\ UNCHANGED <<args, zip, fs0, app, data_dir, db_path, tmpdir, db_candidates,
                   backup_path, stdout, stderr, result>>

\* lines 152-153: no storage directory
SkipStorage ==
    /\ pc = "storage"
    /\ ~HasStorage(fs, Join(tmpdir, storage_prefix))
    /\ stdout' = Append(stdout,
          Line("No storage directory found in archive; skipping file restore.", 0, NoPath, {}))
    /\ pc' = "return"
    /\ UNCHANGED <<args, zip, fs, fs0, app, data_dir, db_path, tmpdir, db_candidates,
                   backup_path, pending, copied, stderr, result>>

\* lines 57-64: one round of the loop of _copy_tree, on whichever path rglob
\* yields next
CopyTreeStep ==
    /\ pc = "copy_tree"
    /\ \E path \in pending :
          LET target == CopyTarget(path, Join(tmpdir, storage_prefix), data_dir)
          IN /\ pending' = pending \ {path}
             /\ IF ~IsFile(fs, path)
                THEN UNCHANGED <<fs, copied>>
                ELSE /\ CanMkdirs(fs, Parent(target))
                     /\ CanCopy(Mkdirs(fs, Parent(target)), path, target)
                     /\ fs' = Copy2(Mkdirs(fs, Parent(target)), path, target)
                     /\ copied' = Append(copied, target)
    /\ pc' = "copy_tree"
    /\ UNCHANGED <<args, zip, fs0, app, data_dir, db_path, tmpdir, db_candidates,
                   backup_path, stdout, stderr, result>>

\* lines 62-63: mkdir or copy2 raises inside the loop; the target may have
\* been opened for writing
CopyTreeError ==
    /\ pc = "copy_tree"
    /\ \E path \in pending, torn \in BOOLEAN :
          LET target == CopyTarget(path, Join(tmpdir, storage_prefix), data_dir)
          IN /\ IsFile(fs, path)
             /\ fs' = Unwind(IF torn /\ CanMkdirs(fs, Parent(target))
                                     /\ CanCopy(Mkdirs(fs, Parent(target)), path, target)
                             THEN Copy2Torn(Mkdirs(fs, Parent(target)), path, target)
                             ELSE fs, tmpdir)
    /\ Finish("raised OSError")
    /\ UNCHANGED <<args, zip, fs0, app, data_dir, db_path, tmpdir, db_candidates,
                   backup_path, pending, copied, stdout, stderr>>

\* lines 65, 151: _copy_tree returns and the count is reported
CopyTreeDone ==
    /\ pc = "copy_tree"
    /\ pending = {}
    /\ stdout' = Append(stdout, Line("Restored storage files into", Len(copied), data_dir, {}))
    /\ pc' = "return"
    /\ UNCHANGED <<args, zip, fs, fs0, app, data_dir, db_path, tmpdir, db_candidates,
                   backup_path, pending, copied, stderr, result>>

\* lines 127, 155: the with blocks are left, the temporary directory removed
Return ==
    /\ pc = "return"
    /\ fs' = RemoveTree(fs, tmpdir)
    /\ Finish("return 0")
    /\ UNCHANGED <<args, zip, fs0, app, data_dir, db_path, tmpdir, db_candidates,
                   backup_path, pending, copied, stdout, stderr>>

Next ==
    \/ ParseArgs
    \/ ArchiveNotFound
    \/ OpenArchiveError
    \/ ResolveApp
    \/ AppUnknown
    \/ DryRun
    \/ Extract
    \/ ExtractError
    \/ FindDb
    \/ BackupExistingDb
    \/ BackupError
    \/ RestoreDb
    \/ RestoreDbError
    \/ SkipDb
    \/ StartCopyTree
    \/ SkipStorage
    \/ CopyTreeStep
    \/ CopyTreeError
    \/ CopyTreeDone
    \/ Return

Spec == Init /\ [][Next]_vars

(* ------------------------ the archive, as the claims see it ----------- *)

HasCrmMarker == Entry(CRM_EXPORT_MARKER, FALSE) \in zip.entries

HasSalesMarker == Entry(SALES_EXPORT_MARKER, FALSE) \in zip.entries

\* the command line is one argparse accepts
ValidCommandLine == args.app \in {None, "crm", "sales"}

\* the app is given or a marker is there
AppKnown == args.app \in {"crm", "sales"} \/ HasCrmMarker \/ HasSalesMarker

\* the regular *.db members directly inside database/
ArchiveDbFiles ==
    {e \in zip.entries : /\ ~e.isdir
                         /\ Len(e.name) = 2
                         /\ e.name[1] = db_prefix
                         /\ Suffix(e.name[2]) = ".db"}

\* the lexicographically first of them
FirstDbFile ==
    CHOOSE e \in ArchiveDbFiles :
        \A o \in ArchiveDbFiles : StringRank(e.name[2][1]) <= StringRank(o.name[2][1])

\* the regular members storage/<rel>
ArchiveStorageFiles ==
    {e \in zip.entries : ~e.isdir /\ Len(e.name) > 1 /\ e.name[1] = storage_prefix}

\* the members whose zip name starts with the prefix and a slash
EntriesUnder(prefix) ==
    {e \in zip.entries : e.name[1] = prefix /\ (Len(e.name) > 1 \/ e.isdir)}

\* the lines of stdout with the given text
Printed(text) == {i \in 1..Len(stdout) : stdout[i].text = text}

NonDryRunReturned0 == pc = "done" /\ result = "return 0" /\ ~args.dry_run

\* the bytes of the file at p in filesystem f are b
Holds(f, p, b) == IsFile(f, p) /\ f[p] = b

NothingWritten == fs = fs0 /\ tmpdir = NoPath

(* -------------------------------- claims ------------------------------ *)

\* C1: after a restore that returned 0, with a database file at the
\* destination before the run and a *.db file directly inside database/ of the
\* archive, a backup <name>.bak_<timestamp> holds the bytes the destination had
\* and the destination holds the bytes of the first *.db file of the archive,
\* whatever the storage/ subtree of the archive contains.
C1_BackupThenReplace ==
    (NonDryRunReturned0 /\ IsFile(fs0, db_path) /\ ArchiveDbFiles # {})
    => /\ \E ts \in Clock : Holds(fs, BackupPathAt(db_path, ts), fs0[db_path])
       /\ Holds(fs, db_path, ZipBytes(FirstDbFile.name))

\* C2: a dry run writes nothing at any point (the filesystem is the one main
\* started with, no temporary directory is made), and on an archive whose app
\* is given or detected it returns 0 after printing its report.
C2_DryRunWritesNothing ==
    /\ args.dry_run => NothingWritten
    /\ (pc = "done" /\ args.dry_run /\ ValidCommandLine /\ zip.kind = "zip" /\ AppKnown)
       => (result = "return 0" /\ Printed("Storage files to restore") # {})

C2_Witness ==
    /\ pc = "done" /\ args.dry_run /\ result = "return 0"
    /\ fs0 # EmptyFS
    /\ ArchiveStorageFiles # {} /\ ArchiveDbFiles # {}

\* C3: with a missing archive, or an archive with neither marker and no --app,
\* main writes nothing and returns 2; and main returns 2 in no other case.
C3_ExitCode2 ==
    LET userError == \/ zip.kind = "missing"
                     \/ zip.kind = "zip" /\ args.app = None
                        /\ ~HasCrmMarker /\ ~HasSalesMarker
    IN /\ (ValidCommandLine /\ userError) => NothingWritten
       /\ (pc = "done" /\ ValidCommandLine /\ userError) => result = "return 2"
       /\ result = "return 2" => (ValidCommandLine /\ userError)

C3_Witness ==
    /\ pc = "done" /\ result = "return 2"
    /\ zip.kind = "zip" /\ zip.entries # {}
    /\ fs0 # EmptyFS /\ ~args.dry_run

\* C4: when main is over, however it ended, nothing of the temporary
\* directory is left on the filesystem.
C4_TempDirRemoved ==
    pc = "done" => \A p \in DOMAIN fs : p # TempDir /\ ~Under(p, TempDir)

C4_Witness ==
    /\ pc = "done" /\ result = "raised OSError"
    /\ tmpdir = TempDir
    /\ backup_path # NoPath
    /\ copied # <<>>

\* C5: once the app is resolved it is the explicit --app value when one is
\* given, whatever the markers; without one it is crm when the CRM marker is
\* there, sales when only the sales marker is; with neither, main ends in the
\* detection failure and no app is resolved.
C5_AppResolution ==
    (ValidCommandLine /\ zip.kind = "zip" /\ pc \notin {"parse_args", "check_archive"})
    => /\ args.app # None => app = args.app
       /\ (args.app = None /\ HasCrmMarker) => app = "crm"
       /\ (args.app = None /\ ~HasCrmMarker /\ HasSalesMarker) => app = "sales"
       /\ (args.app = None /\ ~HasCrmMarker /\ ~HasSalesMarker)
          => (app = None /\ result = "return 2")

C5_Witness ==
    /\ app = "crm" /\ args.app = None
    /\ HasCrmMarker /\ HasSalesMarker

\* C6: in a restore with a database file at the destination before the run and
\* a *.db file in the archive, at every state the bytes the destination had
\* are held by the destination file or by a backup file.
C6_OriginalNeverLost ==
    (~args.dry_run /\ db_path # NoPath /\ IsFile(fs0, db_path) /\ ArchiveDbFiles # {})
    => \/ Holds(fs, db_path, fs0[db_path])
       \/ \E ts \in Clock : Holds(fs, BackupPathAt(db_path, ts), fs0[db_path])

\* the order C6 states, which holds: in such a restore a step changes the
\* destination database only when the app is resolved and the backup copy is
\* complete, and a run whose backup copy failed leaves the destination alone
C6_BackupBeforeOverwrite ==
    [][ (~args.dry_run /\ db_path # NoPath /\ IsFile(fs0, db_path) /\ ArchiveDbFiles # {}
         /\ Exists(fs, db_path) /\ (~Exists(fs', db_path) \/ fs'[db_path] # fs[db_path]))
        => (app # None /\ backup_path # NoPath) ]_vars

C6_FailedBackupLeavesDb ==
    (pc = "done" /\ db_path # NoPath /\ IsFile(fs0, db_path) /\ ArchiveDbFiles # {}
        /\ backup_path = NoPath)
    => Holds(fs, db_path, fs0[db_path])

\* the storage part of C7 and of its amendment: every regular member
\* storage/<rel> is at <data_dir>/<rel> with its bytes, and the count reported
\* is the number of those members
StorageRestored ==
    /\ \A e \in ArchiveStorageFiles :
          Holds(fs, JoinRel(data_dir, Tail(e.name)), ZipBytes(e.name))
    /\ \A i \in Printed("Restored storage files into") :
          stdout[i].n = Cardinality(ArchiveStorageFiles)
    /\ Printed("Restored storage files into") = {} => ArchiveStorageFiles = {}

\* the files that were under the data directory at paths the storage subtree
\* of the archive does not have
FilesNotInArchive ==
    {p \in DOMAIN fs0 :
        /\ IsFile(fs0, p)
        /\ Under(p, data_dir)
        /\ \A e \in ArchiveStorageFiles : JoinRel(data_dir, Tail(e.name)) # p}

\* C7 as stated: after a restore that returned 0 the storage members are in
\* place, the count is right, and every file of the data directory at a path
\* the storage subtree does not have is unchanged.
C7_AsStated ==
    NonDryRunReturned0
    => /\ StorageRestored
       /\ \A p \in FilesNotInArchive : Exists(fs, p) /\ fs[p] = fs0[p]

\* C7 amended: the same, the unchanged files being those that are neither the
\* destination database file nor the backup file.
C7_StorageRestored ==
    NonDryRunReturned0
    => /\ StorageRestored
       /\ \A p \in FilesNotInArchive \ ({db_path} \cup {BackupPathAt(db_path, ts) : ts \in Clock}) :
             Exists(fs, p) /\ fs[p] = fs0[p]

C7_Witness ==
    /\ NonDryRunReturned0
    /\ \E e \in ArchiveStorageFiles : Len(e.name) > 2
    /\ Under(db_path, data_dir) /\ backup_path # NoPath
    /\ Cardinality(FilesNotInArchive) > 2

\* C8: a restore of an archive with an app and with no entry under database/
\* or storage/ that ends without an error returns 0, reports both skips and
\* leaves the filesystem as it was.
C8_NothingToRestore ==
    (pc = "done" /\ ~args.dry_run /\ zip.kind = "zip" /\ app # None
        /\ result # "raised OSError"
        /\ EntriesUnder(db_prefix) = {} /\ EntriesUnder(storage_prefix) = {})
    => /\ result = "return 0"
       /\ Printed("No database file found in archive; skipping DB restore.") # {}
       /\ Printed("No storage directory found in archive; skipping file restore.") # {}
       /\ fs = fs0

\* C9: the count a restore reports is the number the dry run of the same
\* archive prints as "Storage files to restore".
C9_DryRunCountMatches ==
    NonDryRunReturned0
    => \A i \in Printed("Restored storage files into") :
          stdout[i].n = DryRunStorageCount(zip.entries)

\* C10: with no *.db file directly inside database/ the database step is
\* skipped: no backup is made, and up to the storage step the filesystem
\* outside the temporary directory is the one main started with; and
\* _backup_existing_db on a path where nothing exists returns no path and
\* changes nothing.
C10_SkippedDbStep ==
    /\ (tmpdir # NoPath /\ ArchiveDbFiles = {})
       => /\ pc \notin {"backup_db", "restore_db"}
          /\ backup_path = NoPath
          /\ pc \in {"find_db", "skip_db", "storage"} => Outside(fs, TempDir) = fs0
          /\ pc = "storage"
             => Printed("No database file found in archive; skipping DB restore.") # {}
    /\ (pc = "restore_db" /\ ~Exists(fs0, db_path))
       => (backup_path = NoPath /\ Outside(fs, TempDir) = fs0)

C10_Witness ==
    /\ pc = "storage"
    /\ IsFile(fs0, db_path)
    /\ EntriesUnder(db_prefix) # {} /\ ArchiveDbFiles = {}

====
